---- MODULE Spec2Model ----
(***************************************************************************)
(* suihorse: command-line argument dispatch.                               *)
(*                                                                         *)
(* An App holds a usage string, an ordered list of Commands and a default  *)
(* Action.  It is assembled by chained App::command calls and then asked   *)
(* to dispatch one argument vector (App::run / App::run_with_result),      *)
(* which normalizes the vector, looks a command up and either hands the    *)
(* rest to Command::run_with_result, prints help, or calls the default     *)
(* action.  Tokens are strings; Option<T> is <<>> (None) or <<v>> (Some).  *)
(***************************************************************************)
EXTENDS Integers, Sequences, FiniteSets, TLC

VARIABLES
    app,         \* the App under construction / in use: usage, commands, action
    args,        \* the raw argument vector handed to the dispatch
    normalized,  \* run_with_result's local args after normalized_args
    command,     \* run_with_result's local command: None or Some(index into app.commands)
    out,         \* what was printed to standard output, in order
    calls,       \* the Action invocations made, in order
    result,      \* what the last operation returned, or the panic it raised
    pc           \* "build", then "panicked" (App::command) or "ran" (a dispatch ended)

vars == <<app, args, normalized, command, out, calls, result, pc>>

----------------------------------------------------------------------------
(* Bounds and input sets                                                   *)

MaxCommands == 2
MaxAliases == 1
MaxArgs == 3
NormMaxArgs == 2

None == <<>>
Some(v) == <<v>>

CommandNames == {"hello", "hi"}
AliasNames == {"hi"}
Tokens == {"prog", "hello", "hi", "world", "-h", "--help", "--f=-a=b"}

RECURSIVE SeqsUpTo(_, _)
SeqsUpTo(S, n) ==
    IF n = 0 THEN {<<>>}
    ELSE LET shorter == SeqsUpTo(S, n - 1)
         IN  shorter \cup {Append(s, x) : s \in shorter, x \in S}

ArgVectors == SeqsUpTo(Tokens, MaxArgs)

\* Inputs of the normalizer alone: every string of at most three characters
\* over '-', '=', 'a', and the tokens of the documented examples.
Chars == {"", "-", "=", "a"}
NormTokens ==
    {a \o b \o c : a \in Chars, b \in Chars, c \in Chars}
        \cup {"--flag=value", "--flag=a=b", "--flag=-a=b", "key=val", "plain"}
NormVectors == SeqsUpTo(NormTokens, NormMaxArgs)

----------------------------------------------------------------------------
(* Strings                                                                 *)

CharAt(s, i) == SubSeq(s, i, i)

starts_with(s, ch) == Len(s) >= 1 /\ CharAt(s, 1) = ch

contains(s, ch) == \E i \in 1..Len(s) : CharAt(s, i) = ch

RECURSIVE find_char(_, _, _)
find_char(s, ch, i) ==
    IF i > Len(s) THEN 0
    ELSE IF CharAt(s, i) = ch THEN i
    ELSE find_char(s, ch, i + 1)

splitn2_last(s, ch) ==
    LET i == CHOOSE k \in 1..Len(s) :
                 CharAt(s, k) = ch /\ \A j \in (k + 1)..Len(s) : CharAt(s, j) # ch
    IN  <<SubSeq(s, 1, i - 1), SubSeq(s, i + 1, Len(s))>>

\* cur.splitn(2, ch) for a string that contains ch: the text before the first
\* ch and the text after it.
splitn2(s, ch) ==
    LET i == find_char(s, ch, 1)
    IN  <<SubSeq(s, 1, i - 1), SubSeq(s, i + 1, Len(s))>>

vec_contains(v, s) == \E i \in 1..Len(v) : v[i] = s

RECURSIVE join(_, _)
join(v, sep) ==
    IF Len(v) = 0 THEN ""
    ELSE IF Len(v) = 1 THEN v[1]
    ELSE v[1] \o sep \o join(Tail(v), sep)

RECURSIVE repeat(_, _)
repeat(s, n) == IF n <= 0 THEN "" ELSE s \o repeat(s, n - 1)

----------------------------------------------------------------------------
(* Normalizer                                                              *)

RECURSIVE App_normalized_args_lasteq(_)
App_normalized_args_lasteq(raw_args) ==
    IF raw_args = <<>> THEN <<>>
    ELSE LET cur == raw_args[Len(raw_args)]
             acc == App_normalized_args_lasteq(SubSeq(raw_args, 1, Len(raw_args) - 1))
         IN  IF starts_with(cur, "-") /\ contains(cur, "=")
             THEN acc \o splitn2_last(cur, "=")
             ELSE Append(acc, cur)

\* The fold of App::normalized_args: acc after the last token is the fold of
\* the tokens before it, extended by the last token's image.
RECURSIVE App_normalized_args(_)
App_normalized_args(raw_args) ==
    IF raw_args = <<>> THEN <<>>
    ELSE LET cur == raw_args[Len(raw_args)]
             acc == App_normalized_args(SubSeq(raw_args, 1, Len(raw_args) - 1))
         IN  IF starts_with(cur, "-") /\ contains(cur, "=")
             THEN acc \o splitn2(cur, "=")
             ELSE Append(acc, cur)

RECURSIVE Command_normalized_args(_)
Command_normalized_args(raw_args) ==
    IF raw_args = <<>> THEN <<>>
    ELSE LET cur == raw_args[Len(raw_args)]
             acc == Command_normalized_args(SubSeq(raw_args, 1, Len(raw_args) - 1))
         IN  IF starts_with(cur, "-") /\ contains(cur, "=")
             THEN acc \o splitn2(cur, "=")
             ELSE Append(acc, cur)

----------------------------------------------------------------------------
(* Command                                                                 *)

Command_new(name) ==
    [name |-> name, alias |-> None, description |-> None, usage |-> None,
     action |-> None]

Command_description(c, description) ==
    [c EXCEPT !.description = Some(description)]

Command_usage(c, usage) == [c EXCEPT !.usage = Some(usage)]

Command_alias(c, name) ==
    IF c.alias # None
    THEN [c EXCEPT !.alias = Some(Append(c.alias[1], name))]
    ELSE [c EXCEPT !.alias = Some(<<name>>)]

Command_action(c, action) == [c EXCEPT !.action = Some(action)]

Command_help_text(c) ==
    LET d == IF c.description # None
             THEN "Description:\n\t" \o c.description[1] \o "\n\n" ELSE ""
        u == IF c.usage # None
             THEN "Usage:\n\t" \o c.usage[1] \o "\n\n" ELSE ""
    IN  d \o u

\* Help::help prints the help text.
Help_help(text) == <<text>>

Ok == [tag |-> "Ok", msg |-> ""]
Err(kind) == [tag |-> "Err", msg |-> kind]
Panic(msg) == [tag |-> "panic", msg |-> msg]

Command_has_help_flag_long_only(a) == vec_contains(a, "--help")

Command_has_help_flag(a) == vec_contains(a, "-h") \/ vec_contains(a, "--help")

\* Command::run_with_result: what it returns, prints and calls.
Command_run_with_result(c, raw) ==
    LET a == Command_normalized_args(raw)
    IN  IF c.action # None
        THEN IF Command_has_help_flag(a)
             THEN [result |-> Ok, out |-> Help_help(Command_help_text(c)),
                   calls |-> <<>>]
             ELSE [result |-> Ok, out |-> <<>>,
                   calls |-> <<[action |-> c.action[1], args |-> a]>>]
        ELSE [result |-> Ok, out |-> Help_help(Command_help_text(c)),
              calls |-> <<>>]

----------------------------------------------------------------------------
(* App                                                                     *)

App_default ==
    [usage |-> "cli [command] [arg]", commands |-> <<>>, action |-> "default"]

App_new == App_default

any_name(commands, name) == \E i \in 1..Len(commands) : commands[i].name = name

App_command_unchecked(a, c) ==
    [result |-> Ok, app |-> [a EXCEPT !.commands = Append(a.commands, c)]]

\* App::command: the panic it raises, or the App with the command pushed.
App_command(a, c) ==
    IF any_name(a.commands, c.name)
    THEN [result |-> Panic("Command name \"" \o c.name \o "\" is already registered."),
          app |-> a]
    ELSE [result |-> Ok, app |-> [a EXCEPT !.commands = Append(a.commands, c)]]

\* The closure given to find in App::run_with_result.
matches(c, cmd) ==
    IF c.alias # None
    THEN c.name = cmd \/ \E i \in 1..Len(c.alias[1]) : c.alias[1][i] = cmd
    ELSE c.name = cmd

RECURSIVE find_last(_, _, _)
find_last(commands, cmd, i) ==
    IF i > Len(commands) THEN None
    ELSE LET later == find_last(commands, cmd, i + 1)
         IN  IF later # None THEN later
             ELSE IF matches(commands[i], cmd) THEN Some(i) ELSE None

\* self.commands.iter().find(..), from position i on: the position of the
\* first command the closure accepts.
RECURSIVE find(_, _, _)
find(commands, cmd, i) ==
    IF i > Len(commands) THEN None
    ELSE IF matches(commands[i], cmd) THEN Some(i)
    ELSE find(commands, cmd, i + 1)

rendered_name(c) ==
    IF c.alias # None THEN join(c.alias[1], ", ") \o ", " \o c.name ELSE c.name

max_len(commands) ==
    IF commands = <<>> THEN None
    ELSE Some(CHOOSE m \in {Len(rendered_name(commands[i])) : i \in 1..Len(commands)} :
                  \A i \in 1..Len(commands) : Len(rendered_name(commands[i])) <= m)

RECURSIVE command_rows(_, _)
command_rows(commands, name_max_len) ==
    IF commands = <<>> THEN ""
    ELSE LET c == commands[1]
             description == IF c.description # None THEN c.description[1] ELSE ""
         IN  "\t" \o rendered_name(c) \o " "
                  \o repeat(" ", name_max_len - Len(rendered_name(c)))
                  \o ": " \o description \o "\n"
                  \o command_rows(Tail(commands), name_max_len)

\* App::command_help_text: the panic of unwrap on an empty maximum, or the text.
App_command_help_text(a) ==
    LET name_max_len == max_len(a.commands)
    IN  IF name_max_len = None
        THEN [result |-> Panic("called Option::unwrap() on a None value"),
              text |-> ""]
        ELSE [result |-> Ok,
              text |-> "\nCommands:\n" \o command_rows(a.commands, name_max_len[1])]

App_help_text(a) ==
    LET t == App_command_help_text(a)
    IN  IF t.result # Ok THEN t
        ELSE [result |-> Ok, text |-> "Usage:\n\t" \o a.usage \o "\n\n" \o t.text]

App_has_help_flag(a) == vec_contains(a, "-h") \/ vec_contains(a, "--help")

default_args_whole(a) == a

\* args[1..].to_vec()
default_args(a) == SubSeq(a, 2, Len(a))

\* App::run_with_result: its locals and what it returns, prints and calls.
App_run_with_result(a, raw) ==
    LET n == App_normalized_args(raw)
    IN  IF Len(n) < 1
        THEN [normalized |-> n, command |-> None, result |-> Panic("mid > len"),
              out |-> <<>>, calls |-> <<>>]
        ELSE LET cmd == n[1]
                 args_v == SubSeq(n, 2, Len(n))
                 found == find(a.commands, cmd, 1)
             IN  IF found # None
                 THEN LET r == Command_run_with_result(a.commands[found[1]], args_v)
                      IN  [normalized |-> n, command |-> found, result |-> r.result,
                           out |-> r.out, calls |-> r.calls]
                 ELSE IF App_has_help_flag(n)
                 THEN LET t == App_help_text(a)
                      IN  IF t.result # Ok
                          THEN [normalized |-> n, command |-> None,
                                result |-> t.result, out |-> <<>>, calls |-> <<>>]
                          ELSE [normalized |-> n, command |-> None, result |-> Ok,
                                out |-> Help_help(t.text), calls |-> <<>>]
                 ELSE [normalized |-> n, command |-> None, result |-> Ok,
                       out |-> <<>>,
                       calls |-> <<[action |-> a.action, args |-> default_args(n)]>>]

Unit == [tag |-> "unit", msg |-> ""]

\* App::run: an Err from run_with_result becomes a panic with its text.
App_run(a, raw) ==
    LET r == App_run_with_result(a, raw)
    IN  IF r.result.tag = "Err" THEN [r EXCEPT !.result = Panic(r.result.msg)]
        ELSE IF r.result.tag = "Ok" THEN [r EXCEPT !.result = Unit]
        ELSE r

----------------------------------------------------------------------------
(* Inputs: the commands a host program builds with the chained setters     *)

RECURSIVE with_aliases(_, _)
with_aliases(c, names) ==
    IF names = <<>> THEN c
    ELSE with_aliases(Command_alias(c, names[1]), Tail(names))

BuiltCommands ==
    LET named == {with_aliases(Command_new(n), al) :
                      n \in CommandNames, al \in SeqsUpTo(AliasNames, MaxAliases)}
    IN  named \cup
        {Command_action(
             Command_usage(Command_description(c, "say " \o c.name),
                           "cli " \o c.name \o " [arg]"),
             c.name \o "_action") : c \in named}

----------------------------------------------------------------------------
(* The state machine                                                       *)

Init ==
    /\ app = App_new
    /\ args = <<>>
    /\ normalized = <<>>
    /\ command = None
    /\ out = <<>>
    /\ calls = <<>>
    /\ result = Ok
    /\ pc = "build"

\* app = app.command(c)
Do_command ==
    /\ pc = "build"
    /\ Len(app.commands) < MaxCommands
    /\ \E c \in BuiltCommands :
           LET r == App_command(app, c)
           IN  /\ app' = r.app
               /\ result' = r.result
               /\ pc' = IF r.result.tag = "panic" THEN "panicked" ELSE "build"
    /\ UNCHANGED <<args, normalized, command, out, calls>>

Finish(raw, r) ==
    /\ args' = raw
    /\ normalized' = r.normalized
    /\ command' = r.command
    /\ out' = r.out
    /\ calls' = r.calls
    /\ result' = r.result
    /\ pc' = "ran"
    /\ UNCHANGED app

\* app.run_with_result(raw)
Do_run_with_result ==
    /\ pc = "build"
    /\ \E raw \in ArgVectors : Finish(raw, App_run_with_result(app, raw))

\* app.run(raw)
Do_run ==
    /\ pc = "build"
    /\ \E raw \in ArgVectors : Finish(raw, App_run(app, raw))

Next == Do_command \/ Do_run_with_result \/ Do_run

Spec == Init /\ [][Next]_vars

----------------------------------------------------------------------------
(* The normalizer alone, on arbitrary token vectors                        *)

InitNorm ==
    /\ app = App_new
    /\ args \in NormVectors
    /\ normalized = <<>>
    /\ command = None
    /\ out = <<>>
    /\ calls = <<>>
    /\ result = Ok
    /\ pc = "raw"

\* App::normalized_args(args)
Do_App_normalized_args ==
    /\ pc = "raw"
    /\ normalized' = App_normalized_args(args)
    /\ pc' = "app_normalized"
    /\ UNCHANGED <<app, args, command, out, calls, result>>

\* Command::normalized_args(args)
Do_Command_normalized_args ==
    /\ pc = "raw"
    /\ normalized' = Command_normalized_args(args)
    /\ pc' = "command_normalized"
    /\ UNCHANGED <<app, args, command, out, calls, result>>

NextNorm == Do_App_normalized_args \/ Do_Command_normalized_args

SpecNorm == InitNorm /\ [][NextNorm]_vars

----------------------------------------------------------------------------
(* Properties                                                              *)

IsHelpToken(t) == t = "-h" \/ t = "--help"

HasHelp(v) == \E i \in 1..Len(v) : IsHelpToken(v[i])

\* The match keys of a command: its name and its aliases.
Keys(c) ==
    {c.name} \cup (IF c.alias = None THEN {}
                   ELSE {c.alias[1][i] : i \in 1..Len(c.alias[1])})

Matching(commands, token) ==
    {i \in 1..Len(commands) : token \in Keys(commands[i])}

Least(S) == CHOOSE i \in S : \A j \in S : i <= j

Succeeded == result.tag \in {"Ok", "unit"}

ProgName == "prog"

\* C1: with element 0 the program name and element 1 the name or an alias of
\* a registered command that has an action, and no help token present, the
\* dispatch calls exactly that command's action, with the normalized tokens
\* after element 1, and not the default action.
C1_RoutesOnFirstUserToken ==
    (/\ pc = "ran"
     /\ Len(args) >= 2
     /\ args[1] = ProgName
     /\ ~HasHelp(normalized)
     /\ Matching(app.commands, args[2]) # {}
     /\ app.commands[Least(Matching(app.commands, args[2]))].action # None)
    => calls = <<[action |-> app.commands[Least(Matching(app.commands, args[2]))].action[1],
                  args |-> SubSeq(normalized, 3, Len(normalized))]>>

\* C2: a dispatch that reaches a command with no action, with tokens free of
\* -h and --help, prints the command's help, calls no action and hands the
\* NotFound error to the caller (App::run turns it into a panic carrying it).
C2_NoActionYieldsNotFound ==
    (/\ pc = "ran"
     /\ command # None
     /\ app.commands[command[1]].action = None
     /\ ~HasHelp(SubSeq(normalized, 2, Len(normalized))))
    => /\ out = <<Command_help_text(app.commands[command[1]])>>
       /\ calls = <<>>
       /\ result.tag \in {"Err", "panic"}
       /\ result.msg = "NotFound"

C4_HelpShortCircuits ==
    (/\ pc = "ran"
     /\ \/ command = None /\ HasHelp(normalized)
        \/ command # None /\ HasHelp(SubSeq(normalized, 2, Len(normalized))))
    => calls = <<>>

C4_Witness ==
    /\ pc = "ran"
    /\ command # None
    /\ app.commands[command[1]].action # None
    /\ normalized = <<"hello", "world", "-h">>
    /\ calls = <<>>
    /\ Len(out) = 1

IsSplit(t) == starts_with(t, "-") /\ \E i \in 1..Len(t) : SubSeq(t, i, i) = "="

SplitsBefore(raw, i) == Cardinality({j \in 1..(i - 1) : IsSplit(raw[j])})

\* n is raw with every token that starts with '-' and holds '=' replaced by
\* its two halves around its first '=', and every other token kept.
IsNormalizationOf(n, raw) ==
    /\ Len(n) = Len(raw) + SplitsBefore(raw, Len(raw) + 1)
    /\ \A i \in 1..Len(raw) :
           LET k == i + SplitsBefore(raw, i)
           IN  IF IsSplit(raw[i])
               THEN /\ n[k] \o "=" \o n[k + 1] = raw[i]
                    /\ \A j \in 1..Len(n[k]) : SubSeq(n[k], j, j) # "="
               ELSE n[k] = raw[i]

\* C5: both normalized_args functions map a token sequence to the in-order
\* concatenation of its tokens' images: two tokens, split at the first '=', for
\* a token that starts with '-' and holds '='; the token itself otherwise.
C5_Normalization ==
    pc \in {"app_normalized", "command_normalized"}
        => IsNormalizationOf(normalized, args)

C5_Witness ==
    /\ pc = "app_normalized"
    /\ args = <<"--flag=a=b", "key=val">>
    /\ normalized = <<"--flag", "a=b", "key=val">>

\* C6: application-level dispatch succeeds for every argument vector, the
\* empty one and the one holding only the program name included.
C6_DispatchAlwaysSucceeds == pc = "ran" => Succeeded

\* C7: when no command is matched and the normalized vector holds -h or
\* --help, the application help is printed and the dispatch succeeds, whatever
\* the number of registered commands.
C7_AppHelpRendered ==
    (/\ pc = "ran"
     /\ Len(normalized) >= 1
     /\ command = None
     /\ HasHelp(normalized))
    => /\ Succeeded
       /\ Len(out) = 1
       /\ calls = <<>>

PairwiseDistinctNames(commands) ==
    \A i, j \in 1..Len(commands) : commands[i].name = commands[j].name => i = j

AlreadyRegistered(name) ==
    Panic("Command name \"" \o name \o "\" is already registered.")

\* C8: App::command either panics, naming a command name that is already
\* registered and leaving the commands as they were, or appends one command
\* with a new name at the end: the names stay pairwise distinct and the
\* commands stay in registration order.
C8_DuplicateNameIsFatal ==
    [][/\ PairwiseDistinctNames(app'.commands)
       /\ app'.commands # app.commands
              => /\ Len(app'.commands) = Len(app.commands) + 1
                 /\ SubSeq(app'.commands, 1, Len(app.commands)) = app.commands
                 /\ \A i \in 1..Len(app.commands) :
                        app.commands[i].name # app'.commands[Len(app'.commands)].name
                 /\ pc' = "build"
       /\ pc' = "panicked"
              => /\ app' = app
                 /\ \E i \in 1..Len(app.commands) :
                        result' = AlreadyRegistered(app.commands[i].name)]_vars

C8_Witness ==
    /\ pc = "panicked"
    /\ Len(app.commands) = 1
    /\ result = AlreadyRegistered("hello")

\* C9: the lookup of the candidate token selects the earliest registered
\* command whose name or one of whose aliases equals the token, and none
\* exactly when no registered command has it as a key.
C9_FirstMatchWins ==
    (pc = "ran" /\ Len(normalized) >= 1)
    => IF Matching(app.commands, normalized[1]) = {}
       THEN command = None
       ELSE command = Some(Least(Matching(app.commands, normalized[1])))

C9_Witness ==
    /\ pc = "ran"
    /\ Len(app.commands) = 2
    /\ app.commands[1].name = "hello"
    /\ app.commands[1].alias = Some(<<"hi">>)
    /\ app.commands[2].name = "hi"
    /\ args = <<"hi", "world">>
    /\ normalized = args
    /\ command = Some(1)

\* C10: the action of a matched command receives exactly the single
\* normalization of the raw tokens after the command token: normalizing
\* again at command level changes nothing.
C10_SplitAtMostOnce ==
    (pc = "ran" /\ command # None /\ calls # <<>>)
    => calls[1].args = SubSeq(normalized, 2, Len(normalized))

====
